---- MODULE Spec2Model ----
(***************************************************************************)
(* Luna Confidence Coach: the detection-and-transformation engine of       *)
(* src/app.py (class LunaCoach).  Texts are TLA+ strings, read as          *)
(* sequences of characters; offsets are 0-based as in Python.  Floats are  *)
(* kept exact as fractions num/den.  TLA+ strings are ASCII, so the        *)
(* U+2019 apostrophe of one replacement text is written "^" (a character   *)
(* that, like U+2019, is neither a word character, whitespace nor          *)
(* punctuation), and the explanations are transliterated.                  *)
(***************************************************************************)
EXTENDS Integers, Sequences, FiniteSets, TLC

VARIABLES text, report, previous, score, now, metrics

vars == <<text, report, previous, score, now, metrics>>

(***************************************************************************)
(* Characters and Python string primitives.                                *)
(***************************************************************************)
UpperLetters == "ABCDEFGHIJKLMNOPQRSTUVWXYZ"

LowerLetters == "abcdefghijklmnopqrstuvwxyz"

Digits == "0123456789"

CharsOf(s) == {SubSeq(s, i, i) : i \in 1..Len(s)}

\* the characters str.split(), str.strip() and the regex class \s treat as
\* space: blank, tab, line feed, carriage return, form feed, vertical tab and
\* the four separators FS, GS, RS and US
Whitespace == {" ", "\t", "\n", "\r", "\f", "", "", "", "", ""}

\* the regex class \w
WordChars == CharsOf(UpperLetters) \cup CharsOf(LowerLetters) \cup CharsOf(Digits) \cup {"_"}

\* the class [.,!?;:] of the normalizer
Punctuation == {".", ",", "!", "?", ";", ":"}

Min(S) == CHOOSE x \in S : \A y \in S : x <= y

Max(S) == CHOOSE x \in S : \A y \in S : x >= y

\* s[i]
At(s, i) == SubSeq(s, i + 1, i + 1)

\* s[a:b] with Python's treatment of negative and out-of-range bounds
PySlice(s, a, b) ==
    LET n  == Len(s)
        a1 == IF a < 0 THEN Max({0, n + a}) ELSE Min({a, n})
        b1 == IF b < 0 THEN Max({0, n + b}) ELSE Min({b, n})
    IN  IF a1 >= b1 THEN "" ELSE SubSeq(s, a1 + 1, b1)

IndexIn(s, c) == CHOOSE i \in 1..Len(s) : SubSeq(s, i, i) = c

LowerChar(c) ==
    IF c \in CharsOf(UpperLetters)
    THEN SubSeq(LowerLetters, IndexIn(UpperLetters, c), IndexIn(UpperLetters, c))
    ELSE c

UpperChar(c) ==
    IF c \in CharsOf(LowerLetters)
    THEN SubSeq(UpperLetters, IndexIn(LowerLetters, c), IndexIn(LowerLetters, c))
    ELSE c

RECURSIVE ToLower(_)
\* case folding of re.IGNORECASE: both sides are compared in lower case
ToLower(s) ==
    IF Len(s) = 0 THEN ""
    ELSE IF Len(s) = 1 THEN LowerChar(s)
    ELSE ToLower(SubSeq(s, 1, Len(s) \div 2)) \o ToLower(SubSeq(s, Len(s) \div 2 + 1, Len(s)))

\* not text or not text.strip()
IsBlank(s) == \A i \in 1..Len(s) : SubSeq(s, i, i) \in Whitespace

\* len(text.split()): the number of maximal runs of non-whitespace
WordCount(s) ==
    Cardinality({i \in 1..Len(s) :
        /\ SubSeq(s, i, i) \notin Whitespace
        /\ (i = 1 \/ SubSeq(s, i - 1, i - 1) \in Whitespace)})

(***************************************************************************)
(* The regular expressions of the pattern library, as sequences of         *)
(* elements, and Python's backtracking matcher for them.                   *)
(***************************************************************************)
NoMatch == -1

\* \b
B == [k |-> "b"]

\* literal characters, matched case-insensitively
Lit(s) == [k |-> "lit", s |-> ToLower(s)]

\* (a|b|...), alternatives tried left to right
Alt(ss) == [k |-> "alt", ss |-> ss]

\* \s{n,}, greedy
Sp(n) == [k |-> "sp", min |-> n]

\* \w+, greedy
W1 == [k |-> "w"]

\* $ without re.MULTILINE
End == [k |-> "end"]

IsWordAt(t, p) == p >= 0 /\ p < Len(t) /\ At(t, p) \in WordChars

IsBoundary(t, p) == IsWordAt(t, p - 1) # IsWordAt(t, p)

StartsWith(t, p, s) == p + Len(s) <= Len(t) /\ SubSeq(t, p + 1, p + Len(s)) = s

\* the end of the string, or just before a newline that ends it
AtEnd(t, p) == p = Len(t) \/ (p = Len(t) - 1 /\ At(t, p) = "\n")

\* length of the run of characters of class S that starts at offset p
RunLen(t, p, S) ==
    LET stops == {q \in p..(Len(t) - 1) : At(t, q) \notin S}
    IN  IF stops = {} THEN Len(t) - p ELSE Min(stops) - p

RECURSIVE MatchFrom(_, _, _, _), TryAlt(_, _, _, _, _), TryRep(_, _, _, _, _, _)
\* the offset at which elements j.. of pat, matched at offset p of the folded
\* text t, end on the first successful path of the backtracking search
MatchFrom(pat, j, t, p) ==
    IF j > Len(pat) THEN p
    ELSE LET e == pat[j] IN
         CASE e.k = "b"   -> IF IsBoundary(t, p) THEN MatchFrom(pat, j + 1, t, p) ELSE NoMatch
           [] e.k = "lit" -> IF StartsWith(t, p, e.s)
                             THEN MatchFrom(pat, j + 1, t, p + Len(e.s)) ELSE NoMatch
           [] e.k = "alt" -> TryAlt(pat, j, t, p, 1)
           [] e.k = "sp"  -> TryRep(pat, j, t, p, RunLen(t, p, Whitespace), e.min)
           [] e.k = "w"   -> TryRep(pat, j, t, p, RunLen(t, p, WordChars), 1)
           [] e.k = "end" -> IF AtEnd(t, p) THEN MatchFrom(pat, j + 1, t, p) ELSE NoMatch

TryAlt(pat, j, t, p, a) ==
    IF a > Len(pat[j].ss) THEN NoMatch
    ELSE LET s == pat[j].ss[a]
             r == IF StartsWith(t, p, s) THEN MatchFrom(pat, j + 1, t, p + Len(s)) ELSE NoMatch
         IN  IF r # NoMatch THEN r ELSE TryAlt(pat, j, t, p, a + 1)

TryRep(pat, j, t, p, n, min) ==
    IF n < min THEN NoMatch
    ELSE LET r == MatchFrom(pat, j + 1, t, p + n)
         IN  IF r # NoMatch THEN r ELSE TryRep(pat, j, t, p, n - 1, min)

RECURSIVE Scan(_, _, _, _)
Scan(pat, t, starts, pos) ==
    LET c == {p \in starts : p >= pos}
    IN  IF c = {} THEN <<>>
        ELSE LET s == Min(c)
                 e == MatchFrom(pat, 1, t, s)
             IN  <<[start |-> s, end |-> e]>> \o Scan(pat, t, starts, IF e > s THEN e ELSE s + 1)

\* re.finditer(pattern, text, re.IGNORECASE) on the folded text t: the
\* leftmost non-overlapping matches, left to right
FindIter(pat, t) ==
    Scan(pat, t, {p \in 0..Len(t) : MatchFrom(pat, 1, t, p) # NoMatch}, 0)

(***************************************************************************)
(* The pattern library.                                                    *)
(***************************************************************************)
Rule(cat, pat, rep, expl, impact) ==
    [category |-> cat, pattern |-> pat, replacement |-> rep,
     explanation |-> expl, impact |-> impact]

\* LunaCoach.PATTERNS, flattened in the iteration order of the dict
PATTERNS ==
    << Rule("hedging", <<B, Lit("I think that"), B>>,
            "", "Removes unnecessary thinking phrase.", 15),
       Rule("hedging", <<B, Lit("I think"), B>>,
            "", "States sound stronger without hedging.", 14),
       Rule("hedging", <<B, Lit("I believe"), B>>,
            "", "Belief != evidence; say it directly.", 14),
       Rule("hedging", <<B, Lit("I feel like"), B>>,
            "", "Replace feelings with facts and actions.", 14),
       Rule("hedging", <<B, Lit("maybe"), B>>,
            "", "Removes hedging to clarify intent.", 10),
       Rule("hedging", <<B, Lit("perhaps"), B>>,
            "", "Removes hedging to clarify intent.", 10),
       Rule("hedging", <<B, Lit("possibly"), B>>,
            "", "Removes hedging to clarify intent.", 10),
       Rule("hedging", <<B, Lit("probably"), B>>,
            "", "Removes hedging to clarify intent.", 10),
       Rule("hedging", <<B, Alt(<<"kind", "sort">>), Lit(" of"), B>>,
            "", "Eliminates vague qualifiers.", 12),
       Rule("hedging", <<B, Lit("basically"), B>>,
            "", "Filler that weakens tone.", 8),
       Rule("hedging", <<B, Lit("actually"), B>>,
            "", "Often unnecessary emphasis.", 8),
       Rule("uncertainty", <<B, Lit("I don't know if"), B>>,
            "", "State what you can do next.", 20),
       Rule("uncertainty", <<B, Lit("I'm not sure"), B>>,
            "", "Replace doubt with a decision or plan.", 18),
       Rule("uncertainty", <<B, Lit("not sure"), B>>,
            "unclear", "Clarifies uncertainty to a clear term.", 15),
       Rule("uncertainty", <<B, Lit("mixed up"), B>>,
            "unclear", "Clarifies confusion.", 12),
       Rule("weak_verbs", <<B, Lit("might be able to"), B>>,
            "can", "Choose decisive capability.", 18),
       Rule("weak_verbs", <<B, Lit("could be able to"), B>>,
            "can", "Choose decisive capability.", 18),
       Rule("weak_verbs", <<B, Lit("would be able to"), B>>,
            "can", "Choose decisive capability.", 18),
       Rule("weak_verbs", <<B, Lit("might be"), B>>,
            "is", "Strengthens the claim.", 15),
       Rule("weak_verbs", <<B, Lit("could be"), B>>,
            "is", "Makes a definitive statement.", 15),
       Rule("weak_verbs", <<B, Lit("seems to be"), B>>,
            "is", "Converts appearance to fact.", 15),
       Rule("weak_verbs", <<B, Lit("appears to be"), B>>,
            "is", "States facts directly.", 15),
       Rule("weak_verbs", <<B, Lit("tends to be"), B>>,
            "is", "Smoother assertive phrasing.", 12),
       Rule("passive", <<B, Alt(<<"is", "are", "was", "were", "be", "been", "being">>), Sp(1), W1, Alt(<<"ed", "en">>), Sp(1), Lit("by"), B>>,
            "", "Prefer active voice; name the actor.", 16),
       Rule("questions", <<B, Lit("What do you think?"), B>>,
            "", "Avoid validation-seeking; propose an action.", 15),
       Rule("questions", <<B, Lit("Should we?"), B>>,
            ".", "Decide and state the plan.", 15),
       Rule("questions", <<Lit("?"), Sp(0), End>>,
            ".", "Convert question to a decision-oriented statement.", 12),
       Rule("filler", <<B, Lit("just"), B>>,
            "", "Common minimizer; remove to strengthen tone.", 8),
       Rule("filler", <<B, Lit("really"), B>>,
            "", "Intensifier that rarely adds precision.", 6),
       Rule("filler", <<B, Lit("very"), B>>,
            "", "Vague intensifier; replace with specifics.", 6),
       Rule("filler", <<B, Lit("kind of"), B>>,
            "", "Vague - tighten phrasing.", 8),
       Rule("neg_self", <<B, Lit("I need your help"), B>>,
            "", "Shift from dependency to initiative.", 12),
       Rule("neg_self", <<B, Lit("I'm bad at"), B>>,
            "I'm improving at", "Reframe into growth.", 14),
       Rule("neg_self", <<B, Lit("I can't"), B>>,
            "I can", "Assert capability or next step.", 16),
       Rule("neg_self", <<B, Lit("I always mess up"), B>>,
            "I^m learning from errors", "Replace global negative with growth.", 16),
       Rule("neg_self", <<B, Lit("sorry to bother"), B>>,
            "", "Remove apology when not needed.", 18),
       Rule("grammar", <<B, Lit("ill"), B>>,
            "I'll", "Fixes contraction.", 5),
       Rule("grammar", <<B, Lit("its"), B>>,
            "it's", "Adds missing apostrophe where needed.", 5),
       Rule("grammar", <<B, Lit("dont"), B>>,
            "don't", "Fix grammar.", 5),
       Rule("grammar", <<B, Lit("doesnt"), B>>,
            "doesn't", "Fix grammar.", 5),
       Rule("grammar", <<B, Lit("im"), B>>,
            "I'm", "Fix grammar.", 5),
       Rule("grammar", <<Sp(2)>>,
            " ", "Collapse repeated spaces.", 2),
       Rule("intensifiers", <<B, Lit("always"), B>>,
            "", "Absolutes can sound reactive; remove or qualify.", 6),
       Rule("intensifiers", <<B, Lit("never"), B>>,
            "", "Absolutes can sound reactive; remove or qualify.", 6),
       Rule("intensifiers", <<B, Lit("extremely"), B>>,
            "", "Over-intense; prefer specifics.", 6),
       Rule("intensifiers", <<B, Lit("highly"), B>>,
            "", "Vague intensifier; prefer specifics.", 4) >>

CATEGORY_TO_TYPE(category) ==
    CASE category = "hedging"      -> "HEDGING_REMOVED"
      [] category = "uncertainty"  -> "UNCERTAINTY_REMOVED"
      [] category = "weak_verbs"   -> "WEAK_VERB_STRENGTHENED"
      [] category = "passive"      -> "PASSIVE_TO_ACTIVE"
      [] category = "questions"    -> "QUESTION_TO_STATEMENT"
      [] category = "grammar"      -> "GRAMMAR_FIXED"
      [] category = "filler"       -> "FILLER_REMOVED"
      [] category = "neg_self"     -> "NEGATIVE_SELF_TALK_REFRAMED"
      [] category = "intensifiers" -> "INTENSIFIER_TONED_DOWN"
      [] OTHER                     -> "QUALIFIER_REMOVED"

(***************************************************************************)
(* Confidence scoring.  A score is the exact fraction num/den.             *)
(***************************************************************************)
Frac(n, d) == [num |-> n, den |-> d]

ScoreLeq(a, b) == a.num * b.den <= b.num * a.den

ScoreEq(a, b) == a.num * b.den = b.num * a.den

RECURSIVE SumOfImpacts(_)
SumOfImpacts(S) ==
    IF S = {} THEN 0
    ELSE LET x == CHOOSE x \in S : TRUE IN x.impact + SumOfImpacts(S \ {x})

\* the penalty as it would be if a span matched by several rules were
\* charged once, for the first rule that matches it
Penalty_OncePerSpan(t, r) ==
    LET all == UNION {{[rule |-> q, span |-> FindIter(PATTERNS[q].pattern, t)[i],
                        impact |-> PATTERNS[q].impact]
                          : i \in 1..Len(FindIter(PATTERNS[q].pattern, t))} : q \in 1..r}
    IN  SumOfImpacts({x \in all : ~\E y \in all : y.span = x.span /\ y.rule < x.rule})

RECURSIVE Penalty(_, _)
\* sum over the first r rules of len(re.findall(pattern, text)) * impact
Penalty(t, r) ==
    IF r = 0 THEN 0
    ELSE Penalty(t, r - 1) + Len(FindIter(PATTERNS[r].pattern, t)) * PATTERNS[r].impact

\* detect_confidence as it would be without the max(0.0, .) clamp
detect_confidence_unclamped(s) ==
    IF IsBlank(s) THEN Frac(100, 1)
    ELSE LET words   == Max({1, WordCount(s)})
             penalty == Penalty(ToLower(s), Len(PATTERNS))
         IN  Frac(Min({100 * words, 100 * words - 100 * penalty}), words)

detect_confidence(s) ==
    IF IsBlank(s) THEN Frac(100, 1)
    ELSE LET words   == Max({1, WordCount(s)})
             penalty == Penalty(ToLower(s), Len(PATTERNS))
             \* max(0.0, 100.0 - penalty / words * 100.0), then min(100.0, .)
             raw     == Max({0, 100 * words - 100 * penalty})
         IN  Frac(Min({100 * words, raw}), words)

(***************************************************************************)
(* Match collection and the splice.                                        *)
(***************************************************************************)
\* the tuples appended to `matches` for one rule, one per re.finditer match
MatchesOf(original, t, r) ==
    LET ms == FindIter(PATTERNS[r].pattern, t)
    IN  [i \in 1..Len(ms) |->
            [start       |-> ms[i].start,
             end         |-> ms[i].end,
             category    |-> PATTERNS[r].category,
             before      |-> PySlice(original, ms[i].start, ms[i].end),
             replacement |-> PATTERNS[r].replacement,
             explanation |-> PATTERNS[r].explanation,
             impact      |-> PATTERNS[r].impact]]

RECURSIVE IterRules(_, _, _)
IterRules(original, t, r) ==
    IF r > Len(PATTERNS) THEN <<>>
    ELSE MatchesOf(original, t, r) \o IterRules(original, t, r + 1)

\* every match of every rule, in category order, rule order, then position
iter_matches(original) == IterRules(original, ToLower(original), 1)

\* the sort key (x[0], x[1])
KeyLeq(a, b) == a.start < b.start \/ (a.start = b.start /\ a.end <= b.end)

\* m placed behind the elements of the sorted list whose key is not greater
InsertSorted(sorted, m) ==
    LET k == Cardinality({i \in 1..Len(sorted) : KeyLeq(sorted[i], m)})
    IN  SubSeq(sorted, 1, k) \o <<m>> \o SubSeq(sorted, k + 1, Len(sorted))

RECURSIVE SortFrom(_, _, _)
SortFrom(ms, i, sorted) ==
    IF i > Len(ms) THEN sorted ELSE SortFrom(ms, i + 1, InsertSorted(sorted, ms[i]))

\* matches.sort(key=lambda x: (x[0], x[1])): a stable sort
SortMatches(ms) == SortFrom(ms, 1, <<>>)

\* the locals of the splice loop before its first iteration
SpliceInit == [out |-> "", last_idx |-> 0, changes |-> <<>>, shift |-> 0]

\* one iteration of the splice loop, for the match m
SpliceStep(original, st, m) ==
    LET after_text == m.replacement
    IN  [out      |-> st.out \o PySlice(original, st.last_idx, m.start) \o after_text,
         changes  |-> Append(st.changes,
                        [start             |-> m.start + st.shift,
                         end               |-> m.end + st.shift,
                         before            |-> m.before,
                         after             |-> IF after_text # "" THEN after_text ELSE "[removed]",
                         change_type       |-> CATEGORY_TO_TYPE(m.category),
                         explanation       |-> m.explanation,
                         confidence_impact |-> m.impact]),
         last_idx |-> m.end,
         shift    |-> st.shift + Len(after_text) - (m.end - m.start)]

RECURSIVE SpliceLoop(_, _, _, _)
SpliceLoop(original, matches, i, st) ==
    IF i > Len(matches) THEN st
    ELSE SpliceLoop(original, matches, i + 1, SpliceStep(original, st, matches[i]))

RECURSIVE SpliceTrace(_, _, _, _)
\* the locals of the splice loop after each of its iterations
SpliceTrace(original, matches, i, st) ==
    IF i > Len(matches) THEN <<>>
    ELSE LET nx == SpliceStep(original, st, matches[i])
         IN  <<nx>> \o SpliceTrace(original, matches, i + 1, nx)

\* "".join(out) after the rest of the original is appended
Spliced(original) ==
    LET st == SpliceLoop(original, SortMatches(iter_matches(original)), 1, SpliceInit)
    IN  st.out \o PySlice(original, st.last_idx, Len(original))

(***************************************************************************)
(* Normalization.                                                          *)
(***************************************************************************)
RECURSIVE SubFrom(_, _, _, _, _)
SubFrom(s, ms, reps, i, last) ==
    IF i > Len(ms) THEN PySlice(s, last, Len(s))
    ELSE PySlice(s, last, ms[i].start) \o reps[i] \o SubFrom(s, ms, reps, i + 1, ms[i].end)

\* re.sub(r"\s+", " ", s)
CollapseWhitespace(s) ==
    LET ms == FindIter(<<Sp(1)>>, s)
    IN  SubFrom(s, ms, [i \in 1..Len(ms) |-> " "], 1, 0)

\* s.strip()
Strip(s) ==
    LET keep == {i \in 1..Len(s) : SubSeq(s, i, i) \notin Whitespace}
    IN  IF keep = {} THEN "" ELSE SubSeq(s, Min(keep), Max(keep))

\* re.sub(r"\s+([.,!?;:])", r"\1", s)
DropSpaceBeforePunct(s) ==
    LET ms == FindIter(<<Sp(1), Alt(<<".", ",", "!", "?", ";", ":">>)>>, s)
    IN  SubFrom(s, ms, [i \in 1..Len(ms) |-> At(s, ms[i].end - 1)], 1, 0)

\* transformed[0].upper() + transformed[1:], if transformed is not empty
Capitalize(s) == IF Len(s) = 0 THEN s ELSE UpperChar(Head(s)) \o Tail(s)

\* Normalize as it would be without the .strip() of the first step
Normalize_NoStrip(s) == Capitalize(DropSpaceBeforePunct(CollapseWhitespace(s)))

Normalize(s) == Capitalize(DropSpaceBeforePunct(Strip(CollapseWhitespace(s))))

(***************************************************************************)
(* transform_with_tracking.                                                *)
(***************************************************************************)
\* the early return for empty and whitespace-only text
DegenerateReport(s, now_iso) ==
    [original |-> s, transformed |-> s, changes |-> <<>>,
     confidence_before |-> Frac(100, 1), confidence_after |-> Frac(100, 1),
     total_words_removed |-> 0, total_changes |-> 0, created_at_iso |-> now_iso]

\* FullReport as it would be if the score were taken before normalization
FullReport_ScoresSpliced(s, now_iso) ==
    LET original    == s
        st          == SpliceLoop(original, SortMatches(iter_matches(original)), 1, SpliceInit)
        joined      == st.out \o PySlice(original, st.last_idx, Len(original))
        transformed == Normalize(joined)
    IN  [original            |-> original,
         transformed         |-> transformed,
         changes             |-> st.changes,
         confidence_before   |-> detect_confidence(original),
         confidence_after    |-> detect_confidence(joined),
         total_words_removed |-> Max({0, WordCount(original) - WordCount(transformed)}),
         total_changes       |-> Len(st.changes),
         created_at_iso      |-> now_iso]

\* FullReport as it would be if total_changes counted the distinct phrases
\* changed instead of the recorded changes
FullReport_CountsDistinct(s, now_iso) ==
    LET original    == s
        st          == SpliceLoop(original, SortMatches(iter_matches(original)), 1, SpliceInit)
        transformed == Normalize(st.out \o PySlice(original, st.last_idx, Len(original)))
    IN  [original            |-> original,
         transformed         |-> transformed,
         changes             |-> st.changes,
         confidence_before   |-> detect_confidence(original),
         confidence_after    |-> detect_confidence(transformed),
         total_words_removed |-> Max({0, WordCount(original) - WordCount(transformed)}),
         total_changes       |-> Cardinality({st.changes[i].before : i \in 1..Len(st.changes)}),
         created_at_iso      |-> now_iso]

\* the body of transform_with_tracking after the early return
FullReport(s, now_iso) ==
    LET original    == s
        matches     == SortMatches(iter_matches(original))
        st          == SpliceLoop(original, matches, 1, SpliceInit)
        transformed == Normalize(st.out \o PySlice(original, st.last_idx, Len(original)))
    IN  [original            |-> original,
         transformed         |-> transformed,
         changes             |-> st.changes,
         confidence_before   |-> detect_confidence(original),
         confidence_after    |-> detect_confidence(transformed),
         total_words_removed |-> Max({0, WordCount(original) - WordCount(transformed)}),
         total_changes       |-> Len(st.changes),
         created_at_iso      |-> now_iso]

\* transform_with_tracking as it would be without the early return
transform_without_guard(s, now_iso) == FullReport(s, now_iso)

transform_with_tracking(s, now_iso) ==
    IF IsBlank(s) THEN DegenerateReport(s, now_iso) ELSE FullReport(s, now_iso)

(***************************************************************************)
(* The coherence framework of src/luna_framework.py.  Its scores are       *)
(* Python floats, IEEE-754 binary64: a sign, a mantissa of MantBits bits   *)
(* and an exponent, of value man * 2^exp.  The mantissa does not fit a     *)
(* machine integer of the model checker, so it is a sequence of limbs,     *)
(* least significant first, without leading zero limbs.                    *)
(***************************************************************************)
LimbBits == 14

Radix == 2^LimbBits

MantBits == 53

Limb(a, i) == IF i <= Len(a) THEN a[i] ELSE 0

RECURSIVE Trim(_)
Trim(a) ==
    IF a = <<>> THEN a
    ELSE IF a[Len(a)] = 0 THEN Trim(SubSeq(a, 1, Len(a) - 1)) ELSE a

RECURSIVE BigFromInt(_)
BigFromInt(n) == IF n = 0 THEN <<>> ELSE <<n % Radix>> \o BigFromInt(n \div Radix)

RECURSIVE SmallBitLen(_)
SmallBitLen(n) == IF n = 0 THEN 0 ELSE 1 + SmallBitLen(n \div 2)

BitLen(a) == IF a = <<>> THEN 0 ELSE (Len(a) - 1) * LimbBits + SmallBitLen(a[Len(a)])

RECURSIVE BigAddFrom(_, _, _, _)
BigAddFrom(a, b, i, carry) ==
    IF i > Len(a) /\ i > Len(b) THEN (IF carry = 0 THEN <<>> ELSE <<carry>>)
    ELSE LET s == Limb(a, i) + Limb(b, i) + carry
         IN  <<s % Radix>> \o BigAddFrom(a, b, i + 1, s \div Radix)

BigAdd(a, b) == BigAddFrom(a, b, 1, 0)

RECURSIVE BigSubFrom(_, _, _, _)
BigSubFrom(a, b, i, borrow) ==
    IF i > Len(a) THEN <<>>
    ELSE LET d == a[i] - Limb(b, i) - borrow
         IN  IF d < 0 THEN <<d + Radix>> \o BigSubFrom(a, b, i + 1, 1)
             ELSE <<d>> \o BigSubFrom(a, b, i + 1, 0)

\* a - b for a >= b
BigSub(a, b) == Trim(BigSubFrom(a, b, 1, 0))

RECURSIVE BigCmpFrom(_, _, _)
BigCmpFrom(a, b, i) ==
    IF i = 0 THEN 0
    ELSE IF a[i] < b[i] THEN -1
    ELSE IF a[i] > b[i] THEN 1
    ELSE BigCmpFrom(a, b, i - 1)

\* -1, 0 or 1 as a < b, a = b or a > b
BigCmp(a, b) ==
    IF Len(a) < Len(b) THEN -1
    ELSE IF Len(a) > Len(b) THEN 1
    ELSE BigCmpFrom(a, b, Len(a))

RECURSIVE BigMulSmallFrom(_, _, _, _)
BigMulSmallFrom(a, k, i, carry) ==
    IF i > Len(a) THEN (IF carry = 0 THEN <<>> ELSE <<carry>>)
    ELSE LET p == a[i] * k + carry
         IN  <<p % Radix>> \o BigMulSmallFrom(a, k, i + 1, p \div Radix)

\* a * k for 0 <= k <= Radix
BigMulSmall(a, k) == IF k = 0 THEN <<>> ELSE BigMulSmallFrom(a, k, 1, 0)

Zeros(n) == [i \in 1..n |-> 0]

RECURSIVE BigMulFrom(_, _, _)
BigMulFrom(a, b, i) ==
    IF i > Len(a) THEN <<>>
    ELSE LET row == BigMulSmall(b, a[i])
             shifted == IF row = <<>> THEN row ELSE Zeros(i - 1) \o row
         IN  BigAdd(shifted, BigMulFrom(a, b, i + 1))

BigMul(a, b) == BigMulFrom(a, b, 1)

\* a * 2^n
BigShl(a, n) ==
    IF a = <<>> THEN a
    ELSE Zeros(n \div LimbBits) \o BigMulSmall(a, 2^(n % LimbBits))

\* a \div 2^n
BigShr(a, n) ==
    LET q == n \div LimbBits
        r == n % LimbBits
        rest == SubSeq(a, q + 1, Len(a))
    IN  Trim([i \in 1..Len(rest) |->
                 (rest[i] \div 2^r) + (Limb(rest, i + 1) % 2^r) * 2^(LimbBits - r)])

\* bit i of a, bit 0 the least significant
BigBit(a, i) == (Limb(a, i \div LimbBits + 1) \div 2^(i % LimbBits)) % 2

\* the n lowest bits of a are all zero
LowBitsZero(a, n) == BigShl(BigShr(a, n), n) = a

\* the next limb of the quotient in a long division by b, whose top limb is
\* at least Radix / 2: the largest d with d * b <= r, for r < b * Radix.  The
\* estimate from the two top limbs of r is at most 2 too large.
QuotientLimb(r, b) ==
    IF BigCmp(r, b) < 0 THEN 0
    ELSE LET n    == Len(b)
             top  == Limb(r, n + 1) * Radix + Limb(r, n)
             est  == top \div b[n]
             qhat == IF est > Radix - 1 THEN Radix - 1 ELSE est
         IN  IF BigCmp(BigMulSmall(b, qhat), r) <= 0 THEN qhat
             ELSE IF BigCmp(BigMulSmall(b, qhat - 1), r) <= 0 THEN qhat - 1
             ELSE qhat - 2

RECURSIVE BigDivLimbs(_, _, _, _, _)
\* long division, limb by limb from limb k of a down; q and r are the
\* quotient and the remainder of the limbs above k
BigDivLimbs(a, b, k, q, r) ==
    IF k = 0 THEN [quot |-> Trim(q), rem |-> r]
    ELSE LET r2 == Trim(<<a[k]>> \o r)
             d  == QuotientLimb(r2, b)
         IN  BigDivLimbs(a, b, k - 1, <<d>> \o q, BigSub(r2, BigMulSmall(b, d)))

\* the quotient of a by b and whether the division leaves a remainder, for
\* b # 0; both are shifted to bring the top limb of b to at least Radix / 2
BigDivMod(a, b) ==
    LET s == LimbBits - SmallBitLen(b[Len(b)])
        x == BigShl(a, s)
        d == BigDivLimbs(x, BigShl(b, s), Len(x), <<>>, <<>>)
    IN  [quot |-> d.quot, inexact |-> d.rem # <<>>]

Float(neg, man, exp) == [neg |-> neg, man |-> man, exp |-> exp]

FZero == Float(FALSE, <<>>, 0)

\* the float nearest to (n + s) * 2^e, ties to even; s, where set, stands
\* for a fraction strictly between 0 and 1 that n leaves out
RoundNearest(neg, n, e, sticky) ==
    IF n = <<>> THEN FZero
    ELSE LET len == BitLen(n) IN
         IF len <= MantBits THEN Float(neg, BigShl(n, MantBits - len), e - (MantBits - len))
         ELSE LET s    == len - MantBits
                  q    == BigShr(n, s)
                  half == BigBit(n, s - 1) = 1
                  low  == sticky \/ ~LowBitsZero(n, s - 1)
                  up   == half /\ (low \/ BigBit(q, 0) = 1)
                  q1   == BigAdd(q, <<1>>)
              IN  IF ~up THEN Float(neg, q, e + s)
                  ELSE IF BitLen(q1) > MantBits THEN Float(neg, BigShr(q1, 1), e + s + 1)
                  ELSE Float(neg, q1, e + s)

\* float(n) for an int n >= 0
FromInt(n) == RoundNearest(FALSE, BigFromInt(n), 0, FALSE)

FNeg(a) == IF a.man = <<>> THEN a ELSE Float(~a.neg, a.man, a.exp)

FAbs(a) == Float(FALSE, a.man, a.exp)

FAdd(a, b) ==
    IF a.man = <<>> THEN b
    ELSE IF b.man = <<>> THEN a
    ELSE LET e0 == IF a.exp < b.exp THEN a.exp ELSE b.exp
             x  == BigShl(a.man, a.exp - e0)
             y  == BigShl(b.man, b.exp - e0)
             c  == BigCmp(x, y)
         IN  IF a.neg = b.neg THEN RoundNearest(a.neg, BigAdd(x, y), e0, FALSE)
             ELSE IF c = 0 THEN FZero
             ELSE IF c > 0 THEN RoundNearest(a.neg, BigSub(x, y), e0, FALSE)
             ELSE RoundNearest(b.neg, BigSub(y, x), e0, FALSE)

FSub(a, b) == FAdd(a, FNeg(b))

FMul(a, b) ==
    IF a.man = <<>> \/ b.man = <<>> THEN FZero
    ELSE RoundNearest(a.neg # b.neg, BigMul(a.man, b.man), a.exp + b.exp, FALSE)

\* a / b for b # 0
FDiv(a, b) ==
    IF a.man = <<>> THEN FZero
    ELSE LET d == BigDivMod(BigShl(a.man, MantBits + 3), b.man)
         IN  RoundNearest(a.neg # b.neg, d.quot, a.exp - (MantBits + 3) - b.exp, d.inexact)

FSign(a) == IF a.man = <<>> THEN 0 ELSE IF a.neg THEN -1 ELSE 1

\* a < b
FLess(a, b) ==
    IF FSign(a) # FSign(b) THEN FSign(a) < FSign(b)
    ELSE IF FSign(a) = 0 THEN FALSE
    ELSE LET mag == IF a.exp # b.exp THEN (IF a.exp < b.exp THEN -1 ELSE 1)
                    ELSE BigCmp(a.man, b.man)
         IN  FSign(a) * mag < 0

\* min(a, b) and max(a, b): the first argument unless the second is beyond it
FMin(a, b) == IF FLess(b, a) THEN b ELSE a

FMax(a, b) == IF FLess(a, b) THEN b ELSE a

\* a ** 2 goes through the C library's pow, which is accurate to within one
\* unit in the last place but not correctly rounded: the result is one of the
\* two floats next to the exact square (the square itself where it is a
\* float), and which one depends on the library.  up picks the upper one.
FSquare(a, up) ==
    IF a.man = <<>> THEN FZero
    ELSE LET n  == BigMul(a.man, a.man)
             s  == BitLen(n) - MantBits
             q  == BigShr(n, s)
             q1 == BigAdd(q, <<1>>)
         IN  IF LowBitsZero(n, s) \/ ~up THEN Float(FALSE, q, 2 * a.exp + s)
             ELSE IF BitLen(q1) > MantBits THEN Float(FALSE, BigShr(q1, 1), 2 * a.exp + s + 1)
             ELSE Float(FALSE, q1, 2 * a.exp + s)

LowerAll(ss) == [i \in 1..Len(ss) |-> ToLower(ss[i])]

\* ChaosDetector.HEDGING
HEDGING ==
    <<B, Alt(LowerAll(<<"maybe", "perhaps", "possibly", "might", "could", "probably",
                        "likely", "I think", "I believe", "I guess", "I suppose",
                        "seems like", "kind of", "sort of", "somewhat", "rather",
                        "fairly">>)), B>>

\* ChaosDetector.UNCERTAINTY
UNCERTAINTY ==
    <<B, Alt(LowerAll(<<"unclear", "ambiguous", "uncertain", "confused", "unsure",
                        "unknown", "don't know", "can't tell", "hard to say",
                        "difficult to determine", "question", "doubt", "wonder">>)), B>>

\* text.count(c)
CountChar(s, c) == Cardinality({i \in 1..Len(s) : SubSeq(s, i, i) = c})

\* the float a decimal literal n/d denotes: the float nearest to it
Literal(n, d) == FDiv(FromInt(n), FromInt(d))

detect_chaos(s) ==
    IF Len(s) = 0 THEN FZero
    ELSE LET words == WordCount(s) IN
         IF words = 0 THEN FZero
         ELSE LET hedging       == Len(FindIter(HEDGING, ToLower(s)))
                  uncertainty   == Len(FindIter(UNCERTAINTY, ToLower(s)))
                  questions     == CountChar(s, "?") * 2
                  chaos_markers == hedging + uncertainty + questions
                  normalized    == FMul(FDiv(FromInt(chaos_markers), FromInt(words)),
                                        FromInt(100))
              IN  FMin(FDiv(normalized, FromInt(20)), FromInt(1))

Transform_(pat, rep) == [pattern |-> pat, replacement |-> rep]

\* TransformationEngine.TRANSFORMS; (is |are )?unclear is written as the
\* alternatives it tries, in the order it tries them
TRANSFORMS ==
    << Transform_(<<B, Lit("I think that"), B>>, ""),
       Transform_(<<B, Lit("I believe that"), B>>, ""),
       Transform_(<<B, Alt(<<"perhaps", "maybe", "possibly">>), B>>, ""),
       Transform_(<<B, Alt(<<"kind", "sort">>), Lit(" of"), B>>, ""),
       Transform_(<<B, Lit("might be"), B>>, "is"),
       Transform_(<<B, Lit("could be"), B>>, "is"),
       Transform_(<<B, Lit("seems to be"), B>>, "is"),
       Transform_(<<B, Lit("appears to be"), B>>, "is"),
       Transform_(<<B, Alt(<<"is unclear", "are unclear", "unclear">>), B>>, "shows"),
       Transform_(<<B, Lit("ambiguous"), B>>, "clear") >>

\* pattern.sub(replacement, s) for a pattern compiled with re.I
ReSub(pat, rep, s) ==
    LET ms == FindIter(pat, ToLower(s))
    IN  SubFrom(s, ms, [i \in 1..Len(ms) |-> rep], 1, 0)

RECURSIVE ApplyTransforms(_, _)
\* the transforms from the k-th on, applied one after the other
ApplyTransforms(s, k) ==
    IF k > Len(TRANSFORMS) THEN s
    ELSE ApplyTransforms(ReSub(TRANSFORMS[k].pattern, TRANSFORMS[k].replacement, s), k + 1)

\* optimize_transform as it would be without the clamp of delta_score
optimize_transform_unclamped(input_text) ==
    IF Len(input_text) = 0 THEN [result |-> input_text, delta_score |-> FZero]
    ELSE LET initial_chaos == detect_chaos(input_text)
             result        == Strip(CollapseWhitespace(ApplyTransforms(input_text, 1)))
             final_chaos   == detect_chaos(result)
         IN  [result      |-> result,
              delta_score |-> FDiv(FSub(initial_chaos, final_chaos),
                                   FMax(initial_chaos, Literal(1, 10)))]

optimize_transform(input_text) ==
    IF Len(input_text) = 0 THEN [result |-> input_text, delta_score |-> FZero]
    ELSE LET initial_chaos   == detect_chaos(input_text)
             result          == Strip(CollapseWhitespace(ApplyTransforms(input_text, 1)))
             final_chaos     == detect_chaos(result)
             chaos_reduction == FSub(initial_chaos, final_chaos)
         IN  [result      |-> result,
              delta_score |-> FMax(FZero,
                                   FMin(FromInt(1),
                                        FDiv(chaos_reduction,
                                             FMax(initial_chaos, Literal(1, 10)))))]

\* for each of psi_score ** 2, delta_score ** 2 and omega_score ** 2, which
\* of the two floats next to the exact square the C library returns
PowRoundings == [psi : BOOLEAN, delta : BOOLEAN, omega : BOOLEAN]

\* CoherenceMetrics(...) as process builds it from the three scores: the
\* geometric validation and the state
CoherenceMetrics(transformed, psi_score, delta_score, omega_score, up) ==
    LET psi_sq   == FSquare(psi_score, up.psi)
        delta_sq == FSquare(delta_score, up.delta)
        omega_sq == FSquare(omega_score, up.omega)
        expected == FAdd(psi_sq, delta_sq)
    IN  [transformed |-> transformed,
         psi_score   |-> psi_score,
         delta_score |-> delta_score,
         omega_score |-> omega_score,
         geometric_conservation |-> FSub(FromInt(1), FAbs(FSub(omega_sq, expected))),
         coherence_efficiency   |-> FDiv(omega_sq, FMax(expected, Literal(1, 100))),
         state       |-> IF FLess(Literal(6, 10), psi_score) THEN "PSI"
                         ELSE IF FLess(Literal(3, 10), delta_score) THEN "DELTA"
                         ELSE "OMEGA"]

\* the metrics of process, given the scores: one for each way the C library
\* may round the three powers
Outcomes(transformed, psi_score, delta_score, omega_score) ==
    {CoherenceMetrics(transformed, psi_score, delta_score, omega_score, up) :
        up \in PowRoundings}

\* the scores of process, given what optimize_transform returned
Measure(s, transformed, delta_score) ==
    Outcomes(transformed,
             detect_chaos(s),
             delta_score,
             FSub(FromInt(1), detect_chaos(transformed)))

\* LunaFramework.process: the transformed text and its CoherenceMetrics, as
\* the set of results the call can have
process(s) ==
    LET opt == optimize_transform(s)
    IN  Measure(s, opt.result, opt.delta_score)

(***************************************************************************)
(* The state machine: a caller of the engine holds a text, calls           *)
(* detect_confidence and transform_with_tracking on it, and may call       *)
(* transform_with_tracking again on the transformed text it got back.      *)
(***************************************************************************)
None == [none |-> TRUE]

\* the scenarios of the specification
Scenario1 == "I think that maybe we could possibly try this approach."

Scenario2 == "Sorry to bother you, but I was just wondering if maybe you might be able to help?"

Scenario4 == "The quarterly revenue increased by twelve percent."

Scenarios ==
    {Scenario1, Scenario2, Scenario4,
     "hello,world",
     "should we ?x",
     "I\tthink so",
     "I always mess up here",
     "x I'm bad at ill",
     "I dont maybe know if",
     "Kind of sure, is taken  by me ; im ok",
     "I I need maybe your help think a a a a a a a",
     "I dont know if it works",
     "maybex its",
     "It is kind of a plan that we can run in the new year if the team has the time and budget for it"}

\* the pieces the composed texts are built from
Phrases == {"I think that", " maybe", "might be able to", " ", "\t", "?", ",", "x"}

\* composed texts hold at most MaxPhrases pieces
MaxPhrases == 2

\* the number of passes of transform over one text
MaxPasses == 2

RECURSIVE Composed(_)
Composed(k) ==
    IF k = 0 THEN {""}
    ELSE Composed(k - 1) \cup {t \o p : t \in Composed(k - 1), p \in Phrases}

Inputs == Scenarios \cup Composed(MaxPhrases)

Init ==
    /\ text \in Inputs
    /\ report = None
    /\ previous = None
    /\ score = None
    /\ now = 0
    /\ metrics = None

\* score(text)
Score ==
    /\ score = None
    /\ score' = detect_confidence(text)
    /\ UNCHANGED <<text, report, previous, now, metrics>>

\* transform(text); the clock moves on with every call
Transform ==
    /\ report = None
    /\ report' = transform_with_tracking(text, now)
    /\ now' = now + 1
    /\ UNCHANGED <<text, previous, score, metrics>>

\* a further pass: transform(r.transformed) for the report r of the pass
\* before; the text held is the argument of the latest call
Rerun ==
    /\ report # None
    /\ now < MaxPasses
    /\ previous' = report
    /\ text' = report.transformed
    /\ report' = transform_with_tracking(report.transformed, now)
    /\ now' = now + 1
    /\ score' = None
    /\ UNCHANGED metrics

Next == Score \/ Transform \/ Rerun

Spec == Init /\ [][Next]_vars

(***************************************************************************)
(* The framework's caller: a text is handed to LunaFramework.process once. *)
(***************************************************************************)
FrameworkScenarios ==
    {"I think maybe this could possibly be interesting, perhaps.",
     "it seems to be probably fine a b c d",
     "it is unclear?",
     "The results are unclear and ambiguous",
     "I think that it might be fine for the whole team to go there and back again soon",
     "I believe that it appears to be sort of fine but I doubt it",
     "I think a b c d e f g h i j k l m n o p q r s t u v w x",
     "perhaps I doubt it a b c d e f g h i j k l m n o p",
     "doubt ambiguous seems to be seems to be seems to be seems to be seems to be seems to be seems to be a a a a a a a a a a a a a a a a a a a a a a a a a a",
     "Perhaps we dont know, I guess it could be a b c d e f g h"}

FrameworkInputs == Inputs \cup FrameworkScenarios \cup {""}

InitFramework ==
    /\ text \in FrameworkInputs
    /\ report = None
    /\ previous = None
    /\ score = None
    /\ now = 0
    /\ metrics = None

\* framework.process(text)
Process ==
    /\ metrics = None
    /\ metrics' \in process(text)
    /\ UNCHANGED <<text, report, previous, score, now>>

NextFramework == Process

SpecFramework == InitFramework /\ [][NextFramework]_vars

(***************************************************************************)
(* Properties.                                                             *)
(***************************************************************************)
Done == report # None

Hundred == Frac(100, 1)

Zero == Frac(0, 1)

Contains(t, s) == \E p \in 0..(Len(t) - Len(s)) : StartsWith(t, p, s)

Letters == CharsOf(UpperLetters) \cup CharsOf(LowerLetters)

\* C1: for every Change c of a Report, original[c.start:c.end] is exactly
\* c.before, also for the changes recorded after a change whose replacement
\* and match differ in length.
C1_SpansQuoteOriginal ==
    Done => \A i \in 1..Len(report.changes) :
                PySlice(report.original, report.changes[i].start, report.changes[i].end)
                    = report.changes[i].before

\* C2: on scenario 2 "sorry to bother" and "just" are removed, "might be able
\* to" becomes exactly "can", the trailing "?" becomes "." and words are
\* removed; in general two rules matching at the same offset leave one
\* replacement in the text, not both concatenated.
C2_OneReplacementPerRegion ==
    Done =>
        /\ report.original = Scenario2 =>
              /\ ~Contains(ToLower(report.transformed), "sorry to bother")
              /\ ~Contains(ToLower(report.transformed), "just")
              /\ Contains(report.transformed, "you can help")
              /\ At(report.transformed, Len(report.transformed) - 1) = "."
              /\ report.total_words_removed > 0
        /\ LET ms == SortMatches(iter_matches(report.original))
           IN  \A i \in 1..(Len(ms) - 1) :
                   (/\ ms[i].start = ms[i + 1].start
                    /\ ms[i].replacement # ""
                    /\ ms[i + 1].replacement # "")
                   => ~Contains(Spliced(report.original),
                                ms[i].replacement \o ms[i + 1].replacement)

RECURSIVE Kept(_, _, _)
\* the matches left when each match that starts before the cursor is skipped
Kept(ms, i, cursor) ==
    IF i > Len(ms) THEN <<>>
    ELSE IF ms[i].start < cursor THEN Kept(ms, i + 1, cursor)
    ELSE <<ms[i]>> \o Kept(ms, i + 1, ms[i].end)

\* C3: a match that starts before the cursor is skipped, so the recorded
\* Changes are those of the first match in sort order at each place and
\* their spans do not overlap pairwise.
C3_OverlapsSkipped ==
    Done =>
        /\ Len(report.changes) = Len(Kept(SortMatches(iter_matches(report.original)), 1, 0))
        /\ \A i, j \in 1..Len(report.changes) :
               i < j => \/ report.changes[i].end <= report.changes[j].start
                        \/ report.changes[j].end <= report.changes[i].start

\* C4: the second pass never scores below the first:
\* transform(transform(text).transformed).confidence_after >=
\* transform(text).confidence_after.
C4_RerunNeverRegresses ==
    (Done /\ previous # None) => ScoreLeq(previous.confidence_after, report.confidence_after)

\* C5: in a transformed text no punctuation character of ,.!?;: is directly
\* followed by a letter.
C5_SpaceAfterPunctuation ==
    Done => \A i \in 0..(Len(report.transformed) - 2) :
                At(report.transformed, i) \in Punctuation
                    => At(report.transformed, i + 1) \notin Letters

\* C6: every Change has 0 <= start <= end <= len(original), and the starts
\* of consecutive Changes do not decrease.
C6_ChangesAnchoredAndOrdered ==
    Done =>
        /\ \A i \in 1..Len(report.changes) :
               /\ 0 <= report.changes[i].start
               /\ report.changes[i].start <= report.changes[i].end
               /\ report.changes[i].end <= Len(report.original)
        /\ \A i \in 1..(Len(report.changes) - 1) :
               report.changes[i].start <= report.changes[i + 1].start

\* C7: for empty or whitespace-only input the Report has no changes, zero
\* counts, both confidences 100 and the input unchanged as transformed.
C7_DegenerateReport ==
    (Done /\ IsBlank(text)) =>
        /\ report.changes = <<>>
        /\ report.total_changes = 0
        /\ report.total_words_removed = 0
        /\ ScoreEq(report.confidence_before, Hundred)
        /\ ScoreEq(report.confidence_after, Hundred)
        /\ report.transformed = text
        /\ report.original = text

\* a whitespace-only input that holds a run the grammar rule \s{2,} matches
C7_Witness == Done /\ IsBlank(text) /\ Len(text) >= 2

\* C8: the score is defined for every text, lies in [0, 100], and is exactly
\* 100 for the empty and for every whitespace-only text.
C8_ScoreInRange ==
    score # None =>
        /\ score.den > 0
        /\ ScoreLeq(Zero, score)
        /\ ScoreLeq(score, Hundred)
        /\ IsBlank(text) => ScoreEq(score, Hundred)

\* a text whose penalty exceeds its word count, scored 0 by the clamp
C8_Witness ==
    /\ score # None
    /\ ~IsBlank(text)
    /\ Penalty(ToLower(text), Len(PATTERNS)) > WordCount(text)
    /\ ScoreEq(score, Zero)

\* C9: confidence_before is the score of the input and confidence_after the
\* score of the final, normalized transformed text.
C9_ConfidencesAreScores ==
    Done =>
        /\ ScoreEq(report.confidence_before, detect_confidence(text))
        /\ ScoreEq(report.confidence_after, detect_confidence(report.transformed))

\* a report whose spliced text scores differently from its normalized text
C9_Witness ==
    /\ Done
    /\ ~IsBlank(text)
    /\ report.changes # <<>>
    /\ ~ScoreEq(detect_confidence(Spliced(text)), detect_confidence(report.transformed))

\* C10: for a non-empty text that no rule matches the Report has no changes
\* and both confidences are 100.
C10_NoMatchNoChange ==
    (Done /\ text # "" /\ iter_matches(text) = <<>>) =>
        /\ report.changes = <<>>
        /\ report.total_changes = 0
        /\ ScoreEq(report.confidence_before, Hundred)
        /\ ScoreEq(report.confidence_after, Hundred)

\* the spliced text after the whitespace and punctuation steps of the
\* normalizer, before its first character is put in upper case
Cleaned(original) == DropSpaceBeforePunct(Strip(CollapseWhitespace(Spliced(original))))

\* C12: for a non-degenerate input the transformed text has no run of two
\* or more whitespace characters, no leading or trailing whitespace and no
\* whitespace before one of ,.!?;: and is the cleaned text with its first
\* character in upper case and every other character as it was.
C12_TransformedIsNormalized ==
    (Done /\ ~IsBlank(report.original)) =>
        LET t == report.transformed
            c == Cleaned(report.original)
        IN  /\ \A i \in 0..(Len(t) - 2) :
                   ~(At(t, i) \in Whitespace /\ At(t, i + 1) \in Whitespace)
            /\ Len(t) > 0 => (At(t, 0) \notin Whitespace /\ At(t, Len(t) - 1) \notin Whitespace)
            /\ \A i \in 0..(Len(t) - 2) :
                   At(t, i) \in Whitespace => At(t, i + 1) \notin Punctuation
            /\ Len(t) = Len(c)
            /\ Len(t) > 0 => (At(t, 0) = UpperChar(At(c, 0)) /\ Tail(t) = Tail(c))

\* a rewrite that left whitespace to trim and a lower-case first letter
C12_Witness ==
    /\ Done
    /\ ~IsBlank(report.original)
    /\ Len(Spliced(report.original)) > Len(Cleaned(report.original))
    /\ report.transformed # Cleaned(report.original)

RECURSIVE SumImpact(_, _)
\* the weights of the first i collected matches, added up
SumImpact(ms, i) == IF i = 0 THEN 0 ELSE SumImpact(ms, i - 1) + ms[i].impact

\* clamp(100 - 100 * penalty / word_count, 0, 100), the penalty taken over
\* every match of every rule
FormulaScore(s) ==
    LET words   == Max({1, WordCount(s)})
        ms      == iter_matches(s)
        penalty == SumImpact(ms, Len(ms))
    IN  Frac(Min({100 * words, Max({0, 100 * words - 100 * penalty})}), words)

\* C13 as stated, for every non-empty text: the score is
\* clamp(100 - 100 * penalty / word_count, 0, 100).
C13_FormulaForNonEmpty ==
    (score # None /\ text # "") => ScoreEq(score, FormulaScore(text))

\* C13: for every text that is not empty or whitespace-only the score is
\* clamp(100 - 100 * penalty / word_count, 0, 100), with word_count at least
\* 1 and the penalty summed over every rule, so that a span matched by
\* several rules is charged once per rule.
C13_FormulaForNonBlank ==
    (score # None /\ ~IsBlank(text)) => ScoreEq(score, FormulaScore(text))

\* a scored text in which two rules match the same span and the score is
\* strictly between 0 and 100
C13_Witness ==
    /\ score # None
    /\ ~IsBlank(text)
    /\ \E i, j \in 1..Len(iter_matches(text)) :
           /\ i < j
           /\ iter_matches(text)[i].start = iter_matches(text)[j].start
           /\ iter_matches(text)[i].end = iter_matches(text)[j].end
    /\ ~ScoreLeq(score, Zero)
    /\ ~ScoreLeq(Hundred, score)

\* C14: total_changes is the length of the list of changes.
C14_TotalChangesIsLength ==
    Done => report.total_changes = Len(report.changes)

\* a report that records the same phrase more than once
C14_Witness ==
    /\ Done
    /\ \E i, j \in 1..Len(report.changes) :
           i < j /\ report.changes[i].before = report.changes[j].before
    /\ report.total_changes >= 2

\* C15: in the splice loop the cursor last_idx never moves backwards and
\* every copied span original[last_idx:start] has last_idx <= start; every
\* character outside all matched spans is copied exactly once and no
\* character is copied twice.
C15_CursorNeverMovesBack ==
    Done =>
        LET o  == report.original
            ms == IF IsBlank(o) THEN <<>> ELSE SortMatches(iter_matches(o))
            tr == SpliceTrace(o, ms, 1, SpliceInit)
            cursor(i) == IF i = 1 THEN 0 ELSE tr[i - 1].last_idx
            final == IF Len(ms) = 0 THEN 0 ELSE tr[Len(ms)].last_idx
            copies(p) == Cardinality({i \in 1..Len(ms) : cursor(i) <= p /\ p < ms[i].start})
                         + (IF p >= final THEN 1 ELSE 0)
        IN  /\ \A i \in 1..Len(ms) : cursor(i) <= tr[i].last_idx
            /\ \A i \in 1..Len(ms) : cursor(i) <= ms[i].start
            /\ \A p \in 0..(Len(o) - 1) :
                   /\ copies(p) <= 1
                   /\ (\A i \in 1..Len(ms) : p < ms[i].start \/ p >= ms[i].end) => copies(p) = 1

\* C16: one transform never lowers the confidence:
\* confidence_after >= confidence_before.
C16_TransformNeverLowers ==
    Done => ScoreLeq(report.confidence_before, report.confidence_after)

InUnit(x) == ~FLess(x, FZero) /\ ~FLess(FromInt(1), x)

\* C17: the metrics returned by LunaFramework.process have psi_score,
\* delta_score and omega_score each in [0,1]; omega_score is
\* 1 - detect_chaos(transformed); and state is PSI exactly when
\* psi_score > 0.6, DELTA exactly when psi_score <= 0.6 and
\* delta_score > 0.3, and OMEGA otherwise.
C17_MetricsInRangeAndState ==
    metrics # None =>
        LET psi_high   == FLess(Literal(6, 10), metrics.psi_score)
            delta_high == FLess(Literal(3, 10), metrics.delta_score)
        IN  /\ InUnit(metrics.psi_score)
            /\ InUnit(metrics.delta_score)
            /\ InUnit(metrics.omega_score)
            /\ metrics.omega_score = FSub(FromInt(1), detect_chaos(metrics.transformed))
            /\ metrics.state \in {"PSI", "DELTA", "OMEGA"}
            /\ (metrics.state = "PSI") <=> psi_high
            /\ (metrics.state = "DELTA") <=> (~psi_high /\ delta_high)
            /\ (metrics.state = "OMEGA") <=> (~psi_high /\ ~delta_high)

\* the transforms raised the chaos of a text, so the reduction is negative
\* and delta_score is held at 0
C17_Witness ==
    /\ metrics # None
    /\ FLess(metrics.psi_score, detect_chaos(metrics.transformed))
    /\ metrics.transformed # text
    /\ metrics.delta_score = FZero
    /\ metrics.state = "OMEGA"

====
